---------------------------- MODULE Spec2Model ----------------------------
(***************************************************************************)
(* Operator cost model of the auto-parallel strategy planner                *)
(* (parallel/auto_parallel/operator_costmodel.h).                           *)
(*                                                                          *)
(* One cost instance is modelled: its class (variant), its configuration    *)
(* vectors is_parameter_, inputs_type_lengths_, outputs_type_lengths_ and,  *)
(* for the reduction classes, cross_batch_.  The setters and the six cost   *)
(* queries are the actions.  The header holds the bodies of the totals      *)
(* (GetCommCost, GetMemoryCost), of the constant-zero primitives, of the    *)
(* constructor and of set_cross_batch; the remaining bodies are defined out  *)
(* of line (operator_costmodel.cc) and are modelled after the design rules  *)
(* of the specification (sections 4.1-4.3).                                 *)
(*                                                                          *)
(* The second part models RepeatOp of the dataset engine                    *)
(* (dataset/engine/datasetops/repeat_op.cc): its Builder, PrepareNodeAction *)
(* and the GetNextBuffer / EoeReceived loop over the buffers of its child.  *)
(***************************************************************************)
EXTENDS Integers, Sequences, FiniteSets, TLC

(***************************************************************************)
(* Program constants.                                                       *)
(***************************************************************************)
MAXIMUM_INPUT_NUMBER == 100
DEFAULT_DATA_TYPE_LENGTH == 4

(***************************************************************************)
(* Bounds of the model.                                                     *)
(***************************************************************************)
\* longest vector handed to set_is_parameter / SetInputAndOutputTypeLength
MaxCfgLen == 1
\* longest inputs / outputs sequence handed to a cost query
MaxTensors == 1
\* number of concurrent strategy-search workers
NumWorkers == 2

(***************************************************************************)
(* Input domains.                                                           *)
(***************************************************************************)
\* byte widths handed to SetInputAndOutputTypeLength (other than the default)
TypeLengths == {8}
StageIds == {0, 1}

\* A TensorInfo as the cost model reads it: the logical shape and the
\* per-device slice of it under the candidate strategy.
TensorFull == [shape |-> <<4, 2>>, slice_shape |-> <<4, 2>>]
TensorHalf == [shape |-> <<4, 2>>, slice_shape |-> <<2, 2>>]
TensorInfos == {TensorFull, TensorHalf}

SeqsUpTo(S, n) == UNION {[1..k -> S] : k \in 0..n}
TensorLists == SeqsUpTo(TensorInfos, MaxTensors)
\* every operator of the catalogue has one output tensor; a data source may
\* be asked with an empty descriptor list
OutputLists == SeqsUpTo(TensorInfos, 1)
FlagVectors == SeqsUpTo(BOOLEAN, MaxCfgLen)
LengthVectors == SeqsUpTo(TypeLengths, MaxCfgLen)

Variants ==
  {"MatMulCost", "ActivationCost", "SoftmaxCost", "TmpIdentityCost",
   "BatchParallelCost", "VirtualDatasetCost", "GeneratorBaseCost",
   "PReLUCost", "OneHotCost", "SoftmaxCrossEntropyWithLogitsCost",
   "ReshapeCost", "ArithmeticCost", "L2NormalizeCost", "ReduceMethodCost",
   "ReduceMeanCost", "GetNextCost"}
\* ReduceMeanCost derives from ReduceMethodCost: both carry cross_batch_
ReduceVariants == {"ReduceMethodCost", "ReduceMeanCost"}
ZeroCostVariants == {"VirtualDatasetCost", "GeneratorBaseCost", "GetNextCost"}

(***************************************************************************)
(* ListProduct: the product of the entries of a vector, 1 for the empty one *)
(***************************************************************************)
RECURSIVE ListProduct(_)
ListProduct(vec) ==
  IF vec = <<>> THEN 1 ELSE Head(vec) * ListProduct(Tail(vec))

RECURSIVE SeqSum(_)
SeqSum(s) == IF s = <<>> THEN 0 ELSE Head(s) + SeqSum(Tail(s))

(***************************************************************************)
(* The out-of-line formulas, after section 4.3 of the specification.        *)
(*   size measure     : the element count of the per-device slice           *)
(*   memory           : element counts scaled by the configured byte width; *)
(*                      parameters are left out of the backward term        *)
(*   communication    : a tensor whose layout is sharded contributes its    *)
(*                      slice size times its byte width, any other one 0    *)
(* The stage id is threaded through and not interpreted.                    *)
(***************************************************************************)
SliceSize(t) == ListProduct(t.slice_shape)
IsSharded(t) == t.shape # t.slice_shape

InputBytes(self, inputs, k) == SliceSize(inputs[k]) * self.inputs_type_lengths_[k]
OutputBytes(self, outputs, k) == SliceSize(outputs[k]) * self.outputs_type_lengths_[k]

FormulaForwardComm(self, inputs, outputs, stage_id) ==
  SeqSum([k \in 1..Len(outputs) |->
            IF IsSharded(outputs[k]) THEN OutputBytes(self, outputs, k) ELSE 0])

FormulaBackwardComm(self, inputs, outputs, stage_id) ==
  SeqSum([k \in 1..Len(inputs) |->
            IF self.is_parameter_[k] /\ IsSharded(inputs[k])
            THEN InputBytes(self, inputs, k) ELSE 0])

FormulaForwardMemory(self, inputs, outputs, stage_id) ==
  SeqSum([k \in 1..Len(inputs) |-> InputBytes(self, inputs, k)])

FormulaBackwardMemory(self, inputs, outputs, stage_id) ==
  SeqSum([k \in 1..Len(inputs) |->
            IF self.is_parameter_[k] THEN 0 ELSE InputBytes(self, inputs, k)])

\* A reduction that crosses the batch dimension exchanges the gradient of
\* every input, whatever its layout and whether or not it is a parameter.
FormulaCrossBatchBackwardComm(self, inputs, outputs, stage_id) ==
  SeqSum([k \in 1..Len(inputs) |-> InputBytes(self, inputs, k)])

(***************************************************************************)
(* The four primitives of every class.  A body the header gives is          *)
(* translated from it; a body that is only declared there follows the       *)
(* formulas above.                                                          *)
(***************************************************************************)
MatMulCost_GetForwardCommCost(self, inputs, outputs, stage_id) == FormulaForwardComm(self, inputs, outputs, stage_id)
MatMulCost_GetBackwardCommCost(self, inputs, outputs, stage_id) == FormulaBackwardComm(self, inputs, outputs, stage_id)
MatMulCost_GetForwardMemoryCost(self, inputs, outputs, stage_id) == FormulaForwardMemory(self, inputs, outputs, stage_id)
MatMulCost_GetBackwardMemoryCost(self, inputs, outputs, stage_id) == FormulaBackwardMemory(self, inputs, outputs, stage_id)

ActivationCost_GetForwardCommCost(self, inputs, outputs, stage_id) == FormulaForwardComm(self, inputs, outputs, stage_id)
ActivationCost_GetBackwardCommCost(self, inputs, outputs, stage_id) == FormulaBackwardComm(self, inputs, outputs, stage_id)
ActivationCost_GetForwardMemoryCost(self, inputs, outputs, stage_id) == FormulaForwardMemory(self, inputs, outputs, stage_id)
ActivationCost_GetBackwardMemoryCost(self, inputs, outputs, stage_id) == FormulaBackwardMemory(self, inputs, outputs, stage_id)

SoftmaxCost_GetForwardCommCost(self, inputs, outputs, stage_id) == FormulaForwardComm(self, inputs, outputs, stage_id)
SoftmaxCost_GetBackwardCommCost(self, inputs, outputs, stage_id) == FormulaBackwardComm(self, inputs, outputs, stage_id)
SoftmaxCost_GetForwardMemoryCost(self, inputs, outputs, stage_id) == FormulaForwardMemory(self, inputs, outputs, stage_id)
SoftmaxCost_GetBackwardMemoryCost(self, inputs, outputs, stage_id) == FormulaBackwardMemory(self, inputs, outputs, stage_id)

\* section 4.2: an identity-like pass-through exchanges nothing
TmpIdentityCost_GetForwardCommCost(self, inputs, outputs, stage_id) == 0
\* section 4.2: an identity-like pass-through exchanges nothing
TmpIdentityCost_GetBackwardCommCost(self, inputs, outputs, stage_id) == 0
TmpIdentityCost_GetForwardMemoryCost(self, inputs, outputs, stage_id) == FormulaForwardMemory(self, inputs, outputs, stage_id)
TmpIdentityCost_GetBackwardMemoryCost(self, inputs, outputs, stage_id) == FormulaBackwardMemory(self, inputs, outputs, stage_id)

BatchParallelCost_GetForwardCommCost(self, inputs, outputs, stage_id) == 0
\* Faulty variant: a batch-parallel operator that charges a gradient exchange.
BatchParallelCost_GetBackwardCommCost_Slip(self, inputs, outputs, stage_id) == FormulaCrossBatchBackwardComm(self, inputs, outputs, stage_id)
BatchParallelCost_GetBackwardCommCost(self, inputs, outputs, stage_id) == 0
BatchParallelCost_GetForwardMemoryCost(self, inputs, outputs, stage_id) == FormulaForwardMemory(self, inputs, outputs, stage_id)
BatchParallelCost_GetBackwardMemoryCost(self, inputs, outputs, stage_id) == FormulaBackwardMemory(self, inputs, outputs, stage_id)

VirtualDatasetCost_GetForwardCommCost(self, inputs, outputs, stage_id) == 0
VirtualDatasetCost_GetBackwardCommCost(self, inputs, outputs, stage_id) == 0
VirtualDatasetCost_GetForwardMemoryCost(self, inputs, outputs, stage_id) == 0
VirtualDatasetCost_GetBackwardMemoryCost(self, inputs, outputs, stage_id) == 0

GeneratorBaseCost_GetForwardCommCost(self, inputs, outputs, stage_id) == 0
GeneratorBaseCost_GetBackwardCommCost(self, inputs, outputs, stage_id) == 0
\* Faulty variant: a generator that charges for the descriptors it is handed.
GeneratorBaseCost_GetForwardMemoryCost_Slip(self, inputs, outputs, stage_id) == FormulaForwardMemory(self, inputs, outputs, stage_id)
GeneratorBaseCost_GetForwardMemoryCost(self, inputs, outputs, stage_id) == 0
GeneratorBaseCost_GetBackwardMemoryCost(self, inputs, outputs, stage_id) == 0

PReLUCost_GetForwardCommCost(self, inputs, outputs, stage_id) == FormulaForwardComm(self, inputs, outputs, stage_id)
PReLUCost_GetBackwardCommCost(self, inputs, outputs, stage_id) == FormulaBackwardComm(self, inputs, outputs, stage_id)
PReLUCost_GetForwardMemoryCost(self, inputs, outputs, stage_id) == FormulaForwardMemory(self, inputs, outputs, stage_id)
PReLUCost_GetBackwardMemoryCost(self, inputs, outputs, stage_id) == FormulaBackwardMemory(self, inputs, outputs, stage_id)

OneHotCost_GetForwardCommCost(self, inputs, outputs, stage_id) == FormulaForwardComm(self, inputs, outputs, stage_id)
OneHotCost_GetBackwardCommCost(self, inputs, outputs, stage_id) == FormulaBackwardComm(self, inputs, outputs, stage_id)
OneHotCost_GetForwardMemoryCost(self, inputs, outputs, stage_id) == FormulaForwardMemory(self, inputs, outputs, stage_id)
OneHotCost_GetBackwardMemoryCost(self, inputs, outputs, stage_id) == FormulaBackwardMemory(self, inputs, outputs, stage_id)

SoftmaxCrossEntropyWithLogitsCost_GetForwardCommCost(self, inputs, outputs, stage_id) == FormulaForwardComm(self, inputs, outputs, stage_id)
SoftmaxCrossEntropyWithLogitsCost_GetBackwardCommCost(self, inputs, outputs, stage_id) == FormulaBackwardComm(self, inputs, outputs, stage_id)
SoftmaxCrossEntropyWithLogitsCost_GetForwardMemoryCost(self, inputs, outputs, stage_id) == FormulaForwardMemory(self, inputs, outputs, stage_id)
SoftmaxCrossEntropyWithLogitsCost_GetBackwardMemoryCost(self, inputs, outputs, stage_id) == FormulaBackwardMemory(self, inputs, outputs, stage_id)

ReshapeCost_GetForwardCommCost(self, inputs, outputs, stage_id) == FormulaForwardComm(self, inputs, outputs, stage_id)
ReshapeCost_GetBackwardCommCost(self, inputs, outputs, stage_id) == FormulaBackwardComm(self, inputs, outputs, stage_id)
ReshapeCost_GetForwardMemoryCost(self, inputs, outputs, stage_id) == FormulaForwardMemory(self, inputs, outputs, stage_id)
ReshapeCost_GetBackwardMemoryCost(self, inputs, outputs, stage_id) == FormulaBackwardMemory(self, inputs, outputs, stage_id)

ArithmeticCost_GetForwardCommCost(self, inputs, outputs, stage_id) == 0
ArithmeticCost_GetBackwardCommCost(self, inputs, outputs, stage_id) == FormulaBackwardComm(self, inputs, outputs, stage_id)
ArithmeticCost_GetForwardMemoryCost(self, inputs, outputs, stage_id) == FormulaForwardMemory(self, inputs, outputs, stage_id)
ArithmeticCost_GetBackwardMemoryCost(self, inputs, outputs, stage_id) == FormulaBackwardMemory(self, inputs, outputs, stage_id)

L2NormalizeCost_GetForwardCommCost(self, inputs, outputs, stage_id) == 0
L2NormalizeCost_GetBackwardCommCost(self, inputs, outputs, stage_id) == FormulaBackwardComm(self, inputs, outputs, stage_id)
L2NormalizeCost_GetForwardMemoryCost(self, inputs, outputs, stage_id) == FormulaForwardMemory(self, inputs, outputs, stage_id)
L2NormalizeCost_GetBackwardMemoryCost(self, inputs, outputs, stage_id) == FormulaBackwardMemory(self, inputs, outputs, stage_id)

ReduceMethodCost_GetForwardCommCost(self, inputs, outputs, stage_id) == FormulaForwardComm(self, inputs, outputs, stage_id)
\* Faulty variant: the backward communication cost ignores cross_batch_.
ReduceMethodCost_GetBackwardCommCost_Slip(self, inputs, outputs, stage_id) == FormulaBackwardComm(self, inputs, outputs, stage_id)
\* section 4.3: cross_batch_ selects the backward communication formula
ReduceMethodCost_GetBackwardCommCost(self, inputs, outputs, stage_id) ==
  IF self.cross_batch_
  THEN FormulaCrossBatchBackwardComm(self, inputs, outputs, stage_id)
  ELSE FormulaBackwardComm(self, inputs, outputs, stage_id)
ReduceMethodCost_GetForwardMemoryCost(self, inputs, outputs, stage_id) == FormulaForwardMemory(self, inputs, outputs, stage_id)
ReduceMethodCost_GetBackwardMemoryCost(self, inputs, outputs, stage_id) == 0

\* section 4.3: the mean pays the sum's pass over the input and the division
ReduceMeanCost_GetForwardMemoryCost(self, inputs, outputs, stage_id) == 2 * FormulaForwardMemory(self, inputs, outputs, stage_id)

GetNextCost_GetForwardCommCost(self, inputs, outputs, stage_id) == 0
GetNextCost_GetBackwardCommCost(self, inputs, outputs, stage_id) == 0
GetNextCost_GetForwardMemoryCost(self, inputs, outputs, stage_id) == 0
GetNextCost_GetBackwardMemoryCost(self, inputs, outputs, stage_id) == 0

(***************************************************************************)
(* Virtual dispatch of the primitives: the class of the instance selects    *)
(* the body; ReduceMeanCost overrides GetForwardMemoryCost only and takes   *)
(* the other bodies from ReduceMethodCost.                                  *)
(***************************************************************************)
GetForwardCommCost(self, inputs, outputs, stage_id) ==
  CASE self.variant = "MatMulCost" -> MatMulCost_GetForwardCommCost(self, inputs, outputs, stage_id)
    [] self.variant = "ActivationCost" -> ActivationCost_GetForwardCommCost(self, inputs, outputs, stage_id)
    [] self.variant = "SoftmaxCost" -> SoftmaxCost_GetForwardCommCost(self, inputs, outputs, stage_id)
    [] self.variant = "TmpIdentityCost" -> TmpIdentityCost_GetForwardCommCost(self, inputs, outputs, stage_id)
    [] self.variant = "BatchParallelCost" -> BatchParallelCost_GetForwardCommCost(self, inputs, outputs, stage_id)
    [] self.variant = "VirtualDatasetCost" -> VirtualDatasetCost_GetForwardCommCost(self, inputs, outputs, stage_id)
    [] self.variant = "GeneratorBaseCost" -> GeneratorBaseCost_GetForwardCommCost(self, inputs, outputs, stage_id)
    [] self.variant = "PReLUCost" -> PReLUCost_GetForwardCommCost(self, inputs, outputs, stage_id)
    [] self.variant = "OneHotCost" -> OneHotCost_GetForwardCommCost(self, inputs, outputs, stage_id)
    [] self.variant = "SoftmaxCrossEntropyWithLogitsCost" -> SoftmaxCrossEntropyWithLogitsCost_GetForwardCommCost(self, inputs, outputs, stage_id)
    [] self.variant = "ReshapeCost" -> ReshapeCost_GetForwardCommCost(self, inputs, outputs, stage_id)
    [] self.variant = "ArithmeticCost" -> ArithmeticCost_GetForwardCommCost(self, inputs, outputs, stage_id)
    [] self.variant = "L2NormalizeCost" -> L2NormalizeCost_GetForwardCommCost(self, inputs, outputs, stage_id)
    [] self.variant = "ReduceMethodCost" -> ReduceMethodCost_GetForwardCommCost(self, inputs, outputs, stage_id)
    [] self.variant = "ReduceMeanCost" -> ReduceMethodCost_GetForwardCommCost(self, inputs, outputs, stage_id)
    [] self.variant = "GetNextCost" -> GetNextCost_GetForwardCommCost(self, inputs, outputs, stage_id)

GetBackwardCommCost(self, inputs, outputs, stage_id) ==
  CASE self.variant = "MatMulCost" -> MatMulCost_GetBackwardCommCost(self, inputs, outputs, stage_id)
    [] self.variant = "ActivationCost" -> ActivationCost_GetBackwardCommCost(self, inputs, outputs, stage_id)
    [] self.variant = "SoftmaxCost" -> SoftmaxCost_GetBackwardCommCost(self, inputs, outputs, stage_id)
    [] self.variant = "TmpIdentityCost" -> TmpIdentityCost_GetBackwardCommCost(self, inputs, outputs, stage_id)
    [] self.variant = "BatchParallelCost" -> BatchParallelCost_GetBackwardCommCost(self, inputs, outputs, stage_id)
    [] self.variant = "VirtualDatasetCost" -> VirtualDatasetCost_GetBackwardCommCost(self, inputs, outputs, stage_id)
    [] self.variant = "GeneratorBaseCost" -> GeneratorBaseCost_GetBackwardCommCost(self, inputs, outputs, stage_id)
    [] self.variant = "PReLUCost" -> PReLUCost_GetBackwardCommCost(self, inputs, outputs, stage_id)
    [] self.variant = "OneHotCost" -> OneHotCost_GetBackwardCommCost(self, inputs, outputs, stage_id)
    [] self.variant = "SoftmaxCrossEntropyWithLogitsCost" -> SoftmaxCrossEntropyWithLogitsCost_GetBackwardCommCost(self, inputs, outputs, stage_id)
    [] self.variant = "ReshapeCost" -> ReshapeCost_GetBackwardCommCost(self, inputs, outputs, stage_id)
    [] self.variant = "ArithmeticCost" -> ArithmeticCost_GetBackwardCommCost(self, inputs, outputs, stage_id)
    [] self.variant = "L2NormalizeCost" -> L2NormalizeCost_GetBackwardCommCost(self, inputs, outputs, stage_id)
    [] self.variant = "ReduceMethodCost" -> ReduceMethodCost_GetBackwardCommCost(self, inputs, outputs, stage_id)
    [] self.variant = "ReduceMeanCost" -> ReduceMethodCost_GetBackwardCommCost(self, inputs, outputs, stage_id)
    [] self.variant = "GetNextCost" -> GetNextCost_GetBackwardCommCost(self, inputs, outputs, stage_id)

\* Faulty variant: the override of ReduceMeanCost is not dispatched to.
GetForwardMemoryCost_Slip(self, inputs, outputs, stage_id) ==
  CASE self.variant = "MatMulCost" -> MatMulCost_GetForwardMemoryCost(self, inputs, outputs, stage_id)
    [] self.variant = "ActivationCost" -> ActivationCost_GetForwardMemoryCost(self, inputs, outputs, stage_id)
    [] self.variant = "SoftmaxCost" -> SoftmaxCost_GetForwardMemoryCost(self, inputs, outputs, stage_id)
    [] self.variant = "TmpIdentityCost" -> TmpIdentityCost_GetForwardMemoryCost(self, inputs, outputs, stage_id)
    [] self.variant = "BatchParallelCost" -> BatchParallelCost_GetForwardMemoryCost(self, inputs, outputs, stage_id)
    [] self.variant = "VirtualDatasetCost" -> VirtualDatasetCost_GetForwardMemoryCost(self, inputs, outputs, stage_id)
    [] self.variant = "GeneratorBaseCost" -> GeneratorBaseCost_GetForwardMemoryCost(self, inputs, outputs, stage_id)
    [] self.variant = "PReLUCost" -> PReLUCost_GetForwardMemoryCost(self, inputs, outputs, stage_id)
    [] self.variant = "OneHotCost" -> OneHotCost_GetForwardMemoryCost(self, inputs, outputs, stage_id)
    [] self.variant = "SoftmaxCrossEntropyWithLogitsCost" -> SoftmaxCrossEntropyWithLogitsCost_GetForwardMemoryCost(self, inputs, outputs, stage_id)
    [] self.variant = "ReshapeCost" -> ReshapeCost_GetForwardMemoryCost(self, inputs, outputs, stage_id)
    [] self.variant = "ArithmeticCost" -> ArithmeticCost_GetForwardMemoryCost(self, inputs, outputs, stage_id)
    [] self.variant = "L2NormalizeCost" -> L2NormalizeCost_GetForwardMemoryCost(self, inputs, outputs, stage_id)
    [] self.variant = "ReduceMethodCost" -> ReduceMethodCost_GetForwardMemoryCost(self, inputs, outputs, stage_id)
    [] self.variant = "ReduceMeanCost" -> ReduceMethodCost_GetForwardMemoryCost(self, inputs, outputs, stage_id)
    [] self.variant = "GetNextCost" -> GetNextCost_GetForwardMemoryCost(self, inputs, outputs, stage_id)

GetForwardMemoryCost(self, inputs, outputs, stage_id) ==
  CASE self.variant = "MatMulCost" -> MatMulCost_GetForwardMemoryCost(self, inputs, outputs, stage_id)
    [] self.variant = "ActivationCost" -> ActivationCost_GetForwardMemoryCost(self, inputs, outputs, stage_id)
    [] self.variant = "SoftmaxCost" -> SoftmaxCost_GetForwardMemoryCost(self, inputs, outputs, stage_id)
    [] self.variant = "TmpIdentityCost" -> TmpIdentityCost_GetForwardMemoryCost(self, inputs, outputs, stage_id)
    [] self.variant = "BatchParallelCost" -> BatchParallelCost_GetForwardMemoryCost(self, inputs, outputs, stage_id)
    [] self.variant = "VirtualDatasetCost" -> VirtualDatasetCost_GetForwardMemoryCost(self, inputs, outputs, stage_id)
    [] self.variant = "GeneratorBaseCost" -> GeneratorBaseCost_GetForwardMemoryCost(self, inputs, outputs, stage_id)
    [] self.variant = "PReLUCost" -> PReLUCost_GetForwardMemoryCost(self, inputs, outputs, stage_id)
    [] self.variant = "OneHotCost" -> OneHotCost_GetForwardMemoryCost(self, inputs, outputs, stage_id)
    [] self.variant = "SoftmaxCrossEntropyWithLogitsCost" -> SoftmaxCrossEntropyWithLogitsCost_GetForwardMemoryCost(self, inputs, outputs, stage_id)
    [] self.variant = "ReshapeCost" -> ReshapeCost_GetForwardMemoryCost(self, inputs, outputs, stage_id)
    [] self.variant = "ArithmeticCost" -> ArithmeticCost_GetForwardMemoryCost(self, inputs, outputs, stage_id)
    [] self.variant = "L2NormalizeCost" -> L2NormalizeCost_GetForwardMemoryCost(self, inputs, outputs, stage_id)
    [] self.variant = "ReduceMethodCost" -> ReduceMethodCost_GetForwardMemoryCost(self, inputs, outputs, stage_id)
    [] self.variant = "ReduceMeanCost" -> ReduceMeanCost_GetForwardMemoryCost(self, inputs, outputs, stage_id)
    [] self.variant = "GetNextCost" -> GetNextCost_GetForwardMemoryCost(self, inputs, outputs, stage_id)

GetBackwardMemoryCost(self, inputs, outputs, stage_id) ==
  CASE self.variant = "MatMulCost" -> MatMulCost_GetBackwardMemoryCost(self, inputs, outputs, stage_id)
    [] self.variant = "ActivationCost" -> ActivationCost_GetBackwardMemoryCost(self, inputs, outputs, stage_id)
    [] self.variant = "SoftmaxCost" -> SoftmaxCost_GetBackwardMemoryCost(self, inputs, outputs, stage_id)
    [] self.variant = "TmpIdentityCost" -> TmpIdentityCost_GetBackwardMemoryCost(self, inputs, outputs, stage_id)
    [] self.variant = "BatchParallelCost" -> BatchParallelCost_GetBackwardMemoryCost(self, inputs, outputs, stage_id)
    [] self.variant = "VirtualDatasetCost" -> VirtualDatasetCost_GetBackwardMemoryCost(self, inputs, outputs, stage_id)
    [] self.variant = "GeneratorBaseCost" -> GeneratorBaseCost_GetBackwardMemoryCost(self, inputs, outputs, stage_id)
    [] self.variant = "PReLUCost" -> PReLUCost_GetBackwardMemoryCost(self, inputs, outputs, stage_id)
    [] self.variant = "OneHotCost" -> OneHotCost_GetBackwardMemoryCost(self, inputs, outputs, stage_id)
    [] self.variant = "SoftmaxCrossEntropyWithLogitsCost" -> SoftmaxCrossEntropyWithLogitsCost_GetBackwardMemoryCost(self, inputs, outputs, stage_id)
    [] self.variant = "ReshapeCost" -> ReshapeCost_GetBackwardMemoryCost(self, inputs, outputs, stage_id)
    [] self.variant = "ArithmeticCost" -> ArithmeticCost_GetBackwardMemoryCost(self, inputs, outputs, stage_id)
    [] self.variant = "L2NormalizeCost" -> L2NormalizeCost_GetBackwardMemoryCost(self, inputs, outputs, stage_id)
    [] self.variant = "ReduceMethodCost" -> ReduceMethodCost_GetBackwardMemoryCost(self, inputs, outputs, stage_id)
    [] self.variant = "ReduceMeanCost" -> ReduceMethodCost_GetBackwardMemoryCost(self, inputs, outputs, stage_id)
    [] self.variant = "GetNextCost" -> GetNextCost_GetBackwardMemoryCost(self, inputs, outputs, stage_id)

(***************************************************************************)
(* The totals, each as its class writes it.                                 *)
(***************************************************************************)
MatMulCost_GetCommCost(self, inputs, outputs, stage_id) ==
  GetForwardCommCost(self, inputs, outputs, stage_id) + GetBackwardCommCost(self, inputs, outputs, stage_id)
MatMulCost_GetMemoryCost(self, inputs, outputs, stage_id) ==
  GetForwardMemoryCost(self, inputs, outputs, stage_id) + GetBackwardMemoryCost(self, inputs, outputs, stage_id)

ActivationCost_GetCommCost(self, inputs, outputs, stage_id) ==
  GetForwardCommCost(self, inputs, outputs, stage_id) + GetBackwardCommCost(self, inputs, outputs, stage_id)
ActivationCost_GetMemoryCost(self, inputs, outputs, stage_id) ==
  GetForwardMemoryCost(self, inputs, outputs, stage_id) + GetBackwardMemoryCost(self, inputs, outputs, stage_id)

SoftmaxCost_GetCommCost(self, inputs, outputs, stage_id) ==
  GetForwardCommCost(self, inputs, outputs, stage_id) + GetBackwardCommCost(self, inputs, outputs, stage_id)
SoftmaxCost_GetMemoryCost(self, inputs, outputs, stage_id) ==
  GetForwardMemoryCost(self, inputs, outputs, stage_id) + GetBackwardMemoryCost(self, inputs, outputs, stage_id)

TmpIdentityCost_GetCommCost(self, inputs, outputs, stage_id) ==
  GetForwardCommCost(self, inputs, outputs, stage_id) + GetBackwardCommCost(self, inputs, outputs, stage_id)
TmpIdentityCost_GetMemoryCost(self, inputs, outputs, stage_id) ==
  GetForwardMemoryCost(self, inputs, outputs, stage_id) + GetBackwardMemoryCost(self, inputs, outputs, stage_id)

BatchParallelCost_GetCommCost(self, inputs, outputs, stage_id) ==
  GetForwardCommCost(self, inputs, outputs, stage_id) + GetBackwardCommCost(self, inputs, outputs, stage_id)
BatchParallelCost_GetMemoryCost(self, inputs, outputs, stage_id) ==
  GetForwardMemoryCost(self, inputs, outputs, stage_id) + GetBackwardMemoryCost(self, inputs, outputs, stage_id)

VirtualDatasetCost_GetCommCost(self, inputs, outputs, stage_id) ==
  GetForwardCommCost(self, inputs, outputs, stage_id) + GetBackwardCommCost(self, inputs, outputs, stage_id)
VirtualDatasetCost_GetMemoryCost(self, inputs, outputs, stage_id) ==
  GetForwardMemoryCost(self, inputs, outputs, stage_id) + GetBackwardMemoryCost(self, inputs, outputs, stage_id)

GeneratorBaseCost_GetCommCost(self, inputs, outputs, stage_id) ==
  GetForwardCommCost(self, inputs, outputs, stage_id) + GetBackwardCommCost(self, inputs, outputs, stage_id)
GeneratorBaseCost_GetMemoryCost(self, inputs, outputs, stage_id) ==
  GetForwardMemoryCost(self, inputs, outputs, stage_id) + GetBackwardMemoryCost(self, inputs, outputs, stage_id)

PReLUCost_GetCommCost(self, inputs, outputs, stage_id) ==
  GetForwardCommCost(self, inputs, outputs, stage_id) + GetBackwardCommCost(self, inputs, outputs, stage_id)
PReLUCost_GetMemoryCost(self, inputs, outputs, stage_id) ==
  GetForwardMemoryCost(self, inputs, outputs, stage_id) + GetBackwardMemoryCost(self, inputs, outputs, stage_id)

OneHotCost_GetCommCost(self, inputs, outputs, stage_id) ==
  GetForwardCommCost(self, inputs, outputs, stage_id) + GetBackwardCommCost(self, inputs, outputs, stage_id)
OneHotCost_GetMemoryCost(self, inputs, outputs, stage_id) ==
  GetForwardMemoryCost(self, inputs, outputs, stage_id) + GetBackwardMemoryCost(self, inputs, outputs, stage_id)

SoftmaxCrossEntropyWithLogitsCost_GetCommCost(self, inputs, outputs, stage_id) ==
  GetForwardCommCost(self, inputs, outputs, stage_id) + GetBackwardCommCost(self, inputs, outputs, stage_id)
SoftmaxCrossEntropyWithLogitsCost_GetMemoryCost(self, inputs, outputs, stage_id) ==
  GetForwardMemoryCost(self, inputs, outputs, stage_id) + GetBackwardMemoryCost(self, inputs, outputs, stage_id)

ReshapeCost_GetCommCost(self, inputs, outputs, stage_id) ==
  GetForwardCommCost(self, inputs, outputs, stage_id) + GetBackwardCommCost(self, inputs, outputs, stage_id)
ReshapeCost_GetMemoryCost(self, inputs, outputs, stage_id) ==
  GetForwardMemoryCost(self, inputs, outputs, stage_id) + GetBackwardMemoryCost(self, inputs, outputs, stage_id)

ArithmeticCost_GetCommCost(self, inputs, outputs, stage_id) ==
  GetForwardCommCost(self, inputs, outputs, stage_id) + GetBackwardCommCost(self, inputs, outputs, stage_id)
ArithmeticCost_GetMemoryCost(self, inputs, outputs, stage_id) ==
  GetForwardMemoryCost(self, inputs, outputs, stage_id) + GetBackwardMemoryCost(self, inputs, outputs, stage_id)

L2NormalizeCost_GetCommCost(self, inputs, outputs, stage_id) ==
  GetForwardCommCost(self, inputs, outputs, stage_id) + GetBackwardCommCost(self, inputs, outputs, stage_id)
L2NormalizeCost_GetMemoryCost(self, inputs, outputs, stage_id) ==
  GetForwardMemoryCost(self, inputs, outputs, stage_id) + GetBackwardMemoryCost(self, inputs, outputs, stage_id)

\* Faulty variant: the total adds the backward memory cost to the forward
\* communication cost.
ReduceMethodCost_GetCommCost_Slip(self, inputs, outputs, stage_id) ==
  GetForwardCommCost(self, inputs, outputs, stage_id) + GetBackwardMemoryCost(self, inputs, outputs, stage_id)
ReduceMethodCost_GetCommCost(self, inputs, outputs, stage_id) ==
  GetForwardCommCost(self, inputs, outputs, stage_id) + GetBackwardCommCost(self, inputs, outputs, stage_id)
ReduceMethodCost_GetMemoryCost(self, inputs, outputs, stage_id) ==
  GetForwardMemoryCost(self, inputs, outputs, stage_id) + GetBackwardCommCost(self, inputs, outputs, stage_id)


GetNextCost_GetCommCost(self, inputs, outputs, stage_id) ==
  GetForwardCommCost(self, inputs, outputs, stage_id) + GetBackwardCommCost(self, inputs, outputs, stage_id)
GetNextCost_GetMemoryCost(self, inputs, outputs, stage_id) ==
  GetForwardMemoryCost(self, inputs, outputs, stage_id) + GetBackwardMemoryCost(self, inputs, outputs, stage_id)

GetCommCost(self, inputs, outputs, stage_id) ==
  CASE self.variant = "MatMulCost" -> MatMulCost_GetCommCost(self, inputs, outputs, stage_id)
    [] self.variant = "ActivationCost" -> ActivationCost_GetCommCost(self, inputs, outputs, stage_id)
    [] self.variant = "SoftmaxCost" -> SoftmaxCost_GetCommCost(self, inputs, outputs, stage_id)
    [] self.variant = "TmpIdentityCost" -> TmpIdentityCost_GetCommCost(self, inputs, outputs, stage_id)
    [] self.variant = "BatchParallelCost" -> BatchParallelCost_GetCommCost(self, inputs, outputs, stage_id)
    [] self.variant = "VirtualDatasetCost" -> VirtualDatasetCost_GetCommCost(self, inputs, outputs, stage_id)
    [] self.variant = "GeneratorBaseCost" -> GeneratorBaseCost_GetCommCost(self, inputs, outputs, stage_id)
    [] self.variant = "PReLUCost" -> PReLUCost_GetCommCost(self, inputs, outputs, stage_id)
    [] self.variant = "OneHotCost" -> OneHotCost_GetCommCost(self, inputs, outputs, stage_id)
    [] self.variant = "SoftmaxCrossEntropyWithLogitsCost" -> SoftmaxCrossEntropyWithLogitsCost_GetCommCost(self, inputs, outputs, stage_id)
    [] self.variant = "ReshapeCost" -> ReshapeCost_GetCommCost(self, inputs, outputs, stage_id)
    [] self.variant = "ArithmeticCost" -> ArithmeticCost_GetCommCost(self, inputs, outputs, stage_id)
    [] self.variant = "L2NormalizeCost" -> L2NormalizeCost_GetCommCost(self, inputs, outputs, stage_id)
    [] self.variant = "ReduceMethodCost" -> ReduceMethodCost_GetCommCost(self, inputs, outputs, stage_id)
    [] self.variant = "ReduceMeanCost" -> ReduceMethodCost_GetCommCost(self, inputs, outputs, stage_id)
    [] self.variant = "GetNextCost" -> GetNextCost_GetCommCost(self, inputs, outputs, stage_id)

GetMemoryCost(self, inputs, outputs, stage_id) ==
  CASE self.variant = "MatMulCost" -> MatMulCost_GetMemoryCost(self, inputs, outputs, stage_id)
    [] self.variant = "ActivationCost" -> ActivationCost_GetMemoryCost(self, inputs, outputs, stage_id)
    [] self.variant = "SoftmaxCost" -> SoftmaxCost_GetMemoryCost(self, inputs, outputs, stage_id)
    [] self.variant = "TmpIdentityCost" -> TmpIdentityCost_GetMemoryCost(self, inputs, outputs, stage_id)
    [] self.variant = "BatchParallelCost" -> BatchParallelCost_GetMemoryCost(self, inputs, outputs, stage_id)
    [] self.variant = "VirtualDatasetCost" -> VirtualDatasetCost_GetMemoryCost(self, inputs, outputs, stage_id)
    [] self.variant = "GeneratorBaseCost" -> GeneratorBaseCost_GetMemoryCost(self, inputs, outputs, stage_id)
    [] self.variant = "PReLUCost" -> PReLUCost_GetMemoryCost(self, inputs, outputs, stage_id)
    [] self.variant = "OneHotCost" -> OneHotCost_GetMemoryCost(self, inputs, outputs, stage_id)
    [] self.variant = "SoftmaxCrossEntropyWithLogitsCost" -> SoftmaxCrossEntropyWithLogitsCost_GetMemoryCost(self, inputs, outputs, stage_id)
    [] self.variant = "ReshapeCost" -> ReshapeCost_GetMemoryCost(self, inputs, outputs, stage_id)
    [] self.variant = "ArithmeticCost" -> ArithmeticCost_GetMemoryCost(self, inputs, outputs, stage_id)
    [] self.variant = "L2NormalizeCost" -> L2NormalizeCost_GetMemoryCost(self, inputs, outputs, stage_id)
    [] self.variant = "ReduceMethodCost" -> ReduceMethodCost_GetMemoryCost(self, inputs, outputs, stage_id)
    [] self.variant = "ReduceMeanCost" -> ReduceMethodCost_GetMemoryCost(self, inputs, outputs, stage_id)
    [] self.variant = "GetNextCost" -> GetNextCost_GetMemoryCost(self, inputs, outputs, stage_id)

(***************************************************************************)
(* State.                                                                   *)
(***************************************************************************)
VARIABLES
  variant,                \* the class of the cost instance
  is_parameter_,          \* OperatorCost::is_parameter_
  inputs_type_lengths_,   \* OperatorCost::inputs_type_lengths_
  outputs_type_lengths_,  \* OperatorCost::outputs_type_lengths_
  cross_batch_,           \* ReduceMethodCost::cross_batch_ (FALSE where the class has none)
  called,                 \* the setters called on the instance so far
  q_inputs,               \* the candidate layout under evaluation: the input tensors,
  q_outputs,              \*   the output tensors
  q_stage_id,             \*   and the stage id
  last,                   \* the last call made by the building thread: [op, args, ret]
  worker,                 \* the call each concurrent worker is in: [pc, op, args, acc, ret]
  build_max_repeats_,     \* RepeatOp::Builder::build_max_repeats_
  build_status,           \* the Status the last Build returned
  ptr,                    \* the shared_ptr<RepeatOp> handed to Build
  max_repeats_,           \* RepeatOp::max_repeats_
  repeat_count_,          \* RepeatOp::repeat_count_
  state_,                 \* DatasetOp::state_ of the RepeatOp
  leaf_ops_,              \* RepeatOp::leaf_ops_
  child_,                 \* DatasetOp::child_ of the RepeatOp
  repeat_stack,           \* the operators tree_->PopFromRepeatStack() has yet to hand over, next first
  prepare_status,         \* the Status the last PrepareNodeAction returned
  op_ctrl_flags_,         \* per operator of the tree: is kDeOpLastRepeat set
  pc,                     \* where the RepeatOp is in its life / in GetNextBuffer
  buf,                    \* GetNextBuffer's local buf: the child buffer in hand
  p_buffer,               \* what the last GetNextBuffer handed back: [status, buffer]
  eoe_log                 \* one record per EoeReceived call, in call order

repeatVars == <<build_max_repeats_, build_status, ptr, max_repeats_, repeat_count_,
                state_, leaf_ops_, child_, repeat_stack, prepare_status,
                op_ctrl_flags_, pc, buf, p_buffer, eoe_log>>

vars == <<variant, is_parameter_, inputs_type_lengths_, outputs_type_lengths_,
          cross_batch_, called, q_inputs, q_outputs, q_stage_id, last, worker,
          repeatVars>>

candidate == <<q_inputs, q_outputs, q_stage_id>>

fields == <<variant, is_parameter_, inputs_type_lengths_, outputs_type_lengths_,
            cross_batch_>>

\* the instance as a cost query reads it
Self ==
  [variant |-> variant,
   is_parameter_ |-> is_parameter_,
   inputs_type_lengths_ |-> inputs_type_lengths_,
   outputs_type_lengths_ |-> outputs_type_lengths_,
   cross_batch_ |-> cross_batch_]

Workers == 1..NumWorkers
Idle == [pc |-> "idle", op |-> "none", self |-> <<>>, args |-> <<>>, acc |-> 0, ret |-> 0]

QueryOps == {"GetCommCost", "GetForwardCommCost", "GetBackwardCommCost",
             "GetMemoryCost", "GetForwardMemoryCost", "GetBackwardMemoryCost"}
TotalOps == {"GetCommCost", "GetMemoryCost"}

\* a call of the method named op on the instance self
Invoke(op, self, inputs, outputs, stage_id) ==
  CASE op = "GetCommCost" -> GetCommCost(self, inputs, outputs, stage_id)
    [] op = "GetForwardCommCost" -> GetForwardCommCost(self, inputs, outputs, stage_id)
    [] op = "GetBackwardCommCost" -> GetBackwardCommCost(self, inputs, outputs, stage_id)
    [] op = "GetMemoryCost" -> GetMemoryCost(self, inputs, outputs, stage_id)
    [] op = "GetForwardMemoryCost" -> GetForwardMemoryCost(self, inputs, outputs, stage_id)
    [] op = "GetBackwardMemoryCost" -> GetBackwardMemoryCost(self, inputs, outputs, stage_id)

(***************************************************************************)
(* Construction: OperatorCost() fills MAXIMUM_INPUT_NUMBER slots of each    *)
(* vector; cross_batch_ starts false.                                       *)
(***************************************************************************)
DefaultIsParameter == [k \in 1..MAXIMUM_INPUT_NUMBER |-> FALSE]
\* Faulty variant: the constructor's loop stops one slot short.
DefaultTypeLengths_Slip == [k \in 1..(MAXIMUM_INPUT_NUMBER - 1) |-> DEFAULT_DATA_TYPE_LENGTH]
DefaultTypeLengths == [k \in 1..MAXIMUM_INPUT_NUMBER |-> DEFAULT_DATA_TYPE_LENGTH]
DefaultCrossBatch == FALSE

\* std::vector<size_t> inputs_type_lengths() const / outputs_type_lengths() const
inputs_type_lengths == inputs_type_lengths_
outputs_type_lengths == outputs_type_lengths_

\* no RepeatOp exists beside the cost instance
NoRepeatOp ==
  /\ build_max_repeats_ = 0
  /\ build_status = "none"
  /\ ptr = "nullptr"
  /\ max_repeats_ = 0
  /\ repeat_count_ = 0
  /\ state_ = "none"
  /\ leaf_ops_ = <<>>
  /\ child_ = <<>>
  /\ repeat_stack = <<>>
  /\ prepare_status = "none"
  /\ op_ctrl_flags_ = <<>>
  /\ pc = "absent"
  /\ buf = "none"
  /\ p_buffer = [status |-> "none", buffer |-> "none"]
  /\ eoe_log = <<>>

Init ==
  /\ NoRepeatOp
  /\ variant \in Variants
  /\ is_parameter_ = DefaultIsParameter
  /\ inputs_type_lengths_ = DefaultTypeLengths
  /\ outputs_type_lengths_ = DefaultTypeLengths
  /\ cross_batch_ = DefaultCrossBatch
  /\ called = {}
  /\ q_inputs \in TensorLists
  /\ q_outputs \in OutputLists
  /\ q_stage_id \in StageIds
  /\ last = [op |-> "OperatorCost", args |-> <<>>, ret |-> 0]
  /\ worker = [w \in Workers |-> Idle]

(***************************************************************************)
(* The setters.  set_is_parameter and SetInputAndOutputTypeLength are       *)
(* declared in the header and defined out of line; after section 4.1 they   *)
(* replace slots 0..len-1 and leave the other slots as they are, and each   *)
(* is called at most once per instance.                                     *)
(***************************************************************************)
\* Faulty variant: the stored vector is replaced by the given one as a whole.
ReplacePrefix_Slip(vec, given) == given
ReplacePrefix(vec, given) ==
  [k \in 1..Len(vec) |-> IF k <= Len(given) THEN given[k] ELSE vec[k]]

set_is_parameter(is_parameter) ==
  /\ "set_is_parameter" \notin called
  /\ is_parameter_' = ReplacePrefix(is_parameter_, is_parameter)
  /\ called' = called \cup {"set_is_parameter"}
  /\ last' = [op |-> "set_is_parameter", args |-> <<is_parameter>>, ret |-> 0]
  /\ UNCHANGED <<variant, inputs_type_lengths_, outputs_type_lengths_, cross_batch_, candidate, worker, repeatVars>>

SetInputAndOutputTypeLength(input_lengths, output_lengths) ==
  /\ "SetInputAndOutputTypeLength" \notin called
  /\ inputs_type_lengths_' = ReplacePrefix(inputs_type_lengths_, input_lengths)
  /\ outputs_type_lengths_' = ReplacePrefix(outputs_type_lengths_, output_lengths)
  /\ called' = called \cup {"SetInputAndOutputTypeLength"}
  /\ last' = [op |-> "SetInputAndOutputTypeLength",
              args |-> <<input_lengths, output_lengths>>, ret |-> 0]
  /\ UNCHANGED <<variant, is_parameter_, cross_batch_, candidate, worker, repeatVars>>

\* Faulty variant: setting the flag puts is_parameter_ back to its defaults.
set_cross_batch_Slip(cb) ==
  /\ variant \in ReduceVariants
  /\ cross_batch_' = cb
  /\ is_parameter_' = DefaultIsParameter
  /\ called' = called \cup {"set_cross_batch"}
  /\ last' = [op |-> "set_cross_batch", args |-> <<cb>>, ret |-> 0]
  /\ UNCHANGED <<variant, inputs_type_lengths_, outputs_type_lengths_, candidate, worker, repeatVars>>
\* void set_cross_batch(bool cb) { cross_batch_ = cb; }
set_cross_batch(cb) ==
  /\ variant \in ReduceVariants
  /\ cross_batch_' = cb
  /\ called' = called \cup {"set_cross_batch"}
  /\ last' = [op |-> "set_cross_batch", args |-> <<cb>>, ret |-> 0]
  /\ UNCHANGED <<variant, is_parameter_, inputs_type_lengths_, outputs_type_lengths_, candidate, worker, repeatVars>>

(***************************************************************************)
(* The cost queries.  Every one of the six is declared const in OperatorCost *)
(* and in each subclass, so a call can write only the data members that are  *)
(* declared mutable; a member that is not keeps its value.                   *)
(***************************************************************************)
\* Faulty variant: the flag of the reduction classes is declared mutable (a
\* const query may then write it, to cache what it has found).
MutableMembers_Slip == {"cross_batch_"}
\* the data members declared mutable: is_parameter_, inputs_type_lengths_,
\* outputs_type_lengths_ and cross_batch_ are all declared without it
MutableMembers == {}

\* what a call of a const method may do to the instance
QueryFrame ==
  /\ variant' = variant
  /\ IF "is_parameter_" \in MutableMembers
     THEN is_parameter_' \in {is_parameter_, DefaultIsParameter}
     ELSE is_parameter_' = is_parameter_
  /\ IF "inputs_type_lengths_" \in MutableMembers
     THEN inputs_type_lengths_' \in {inputs_type_lengths_, DefaultTypeLengths}
     ELSE inputs_type_lengths_' = inputs_type_lengths_
  /\ IF "outputs_type_lengths_" \in MutableMembers
     THEN outputs_type_lengths_' \in {outputs_type_lengths_, DefaultTypeLengths}
     ELSE outputs_type_lengths_' = outputs_type_lengths_
  /\ IF "cross_batch_" \in MutableMembers /\ variant \in ReduceVariants
     THEN cross_batch_' \in BOOLEAN
     ELSE cross_batch_' = cross_batch_

Query(op) ==
  /\ last' = [op |-> op, args |-> <<q_inputs, q_outputs, q_stage_id>>,
              ret |-> Invoke(op, Self, q_inputs, q_outputs, q_stage_id)]
  /\ QueryFrame
  /\ UNCHANGED <<called, candidate, worker, repeatVars>>

CallGetCommCost == Query("GetCommCost")
CallGetForwardCommCost == Query("GetForwardCommCost")
CallGetBackwardCommCost == Query("GetBackwardCommCost")
CallGetMemoryCost == Query("GetMemoryCost")
CallGetForwardMemoryCost == Query("GetForwardMemoryCost")
CallGetBackwardMemoryCost == Query("GetBackwardMemoryCost")

CallSetIsParameter == \E flags \in FlagVectors : set_is_parameter(flags)
CallSetInputAndOutputTypeLength ==
  \E input_lengths \in LengthVectors, output_lengths \in LengthVectors :
    SetInputAndOutputTypeLength(input_lengths, output_lengths)
CallSetCrossBatch == \E cb \in BOOLEAN : set_cross_batch(cb)

Next ==
  \/ CallSetIsParameter
  \/ CallSetInputAndOutputTypeLength
  \/ CallSetCrossBatch
  \/ CallGetCommCost
  \/ CallGetForwardCommCost
  \/ CallGetBackwardCommCost
  \/ CallGetMemoryCost
  \/ CallGetForwardMemoryCost
  \/ CallGetBackwardMemoryCost

Spec == Init /\ [][Next]_vars

(***************************************************************************)
(* Concurrent querying (section 5 of the specification).  The instance is   *)
(* configured by one thread and then published; from then on NumWorkers     *)
(* workers of the strategy search call the six cost methods on it without   *)
(* coordination.  A primitive is one step of its worker.  A total is two:   *)
(* the worker evaluates the forward operand, and in a later step the second *)
(* operand and the sum, so calls of other workers fall between the two      *)
(* reads of the instance.                                                   *)
(***************************************************************************)
\* the configurations an instance is published with
PublishedFlags == {<<>>, <<TRUE>>}
PublishedTypeLengths == {<< <<>>, <<>> >>, << <<8>>, <<8>> >>}
\* the candidate layouts the workers evaluate
PublishedInputs == {<<TensorHalf>>}
PublishedOutputs == {<<TensorHalf>>}

InitConcurrent ==
  /\ NoRepeatOp
  /\ variant \in Variants
  /\ \E flags \in PublishedFlags :
       is_parameter_ = ReplacePrefix(DefaultIsParameter, flags)
  /\ \E lens \in PublishedTypeLengths :
       /\ inputs_type_lengths_ = ReplacePrefix(DefaultTypeLengths, lens[1])
       /\ outputs_type_lengths_ = ReplacePrefix(DefaultTypeLengths, lens[2])
  /\ cross_batch_ \in (IF variant \in ReduceVariants THEN BOOLEAN ELSE {DefaultCrossBatch})
  /\ called = {"set_is_parameter", "SetInputAndOutputTypeLength"}
                \cup (IF variant \in ReduceVariants THEN {"set_cross_batch"} ELSE {})
  /\ q_inputs \in PublishedInputs
  /\ q_outputs \in PublishedOutputs
  /\ q_stage_id \in StageIds
  /\ last = [op |-> "publish", args |-> <<>>, ret |-> 0]
  /\ worker = [w \in Workers |-> Idle]

\* the forward operand of a total
ForwardOf(op) ==
  IF op = "GetCommCost" THEN "GetForwardCommCost" ELSE "GetForwardMemoryCost"

\* the second operand of a total in the class v: GetBackwardCommCost in every
\* GetCommCost, GetBackwardMemoryCost in every GetMemoryCost but the one of
\* ReduceMethodCost (which ReduceMeanCost inherits): that one adds
\* GetBackwardCommCost
SecondOf(op, v) ==
  IF op = "GetCommCost" THEN "GetBackwardCommCost"
  ELSE IF v \in ReduceVariants THEN "GetBackwardCommCost"
  ELSE "GetBackwardMemoryCost"

WorkerPrimitive(w, op) ==
  /\ worker[w].pc = "idle"
  /\ worker' = [worker EXCEPT ![w] =
       [pc |-> "done", op |-> op, self |-> Self,
        args |-> <<q_inputs, q_outputs, q_stage_id>>,
        acc |-> 0, ret |-> Invoke(op, Self, q_inputs, q_outputs, q_stage_id)]]
  /\ QueryFrame
  /\ UNCHANGED <<called, candidate, last, repeatVars>>

WorkerTotalForward(w, op) ==
  /\ worker[w].pc = "idle"
  /\ worker' = [worker EXCEPT ![w] =
       [pc |-> "half", op |-> op, self |-> Self,
        args |-> <<q_inputs, q_outputs, q_stage_id>>,
        acc |-> Invoke(ForwardOf(op), Self, q_inputs, q_outputs, q_stage_id),
        ret |-> 0]]
  /\ QueryFrame
  /\ UNCHANGED <<called, candidate, last, repeatVars>>

WorkerTotalBackward(w) ==
  /\ worker[w].pc = "half"
  /\ LET c == worker[w]
     IN worker' = [worker EXCEPT ![w] =
          [pc |-> "done", op |-> c.op, self |-> c.self, args |-> c.args, acc |-> c.acc,
           ret |-> c.acc + Invoke(SecondOf(c.op, variant), Self,
                                  c.args[1], c.args[2], c.args[3])]]
  /\ QueryFrame
  /\ UNCHANGED <<called, candidate, last, repeatVars>>

\* the worker takes the returned value and is free for its next call
WorkerReturn(w) ==
  /\ worker[w].pc = "done"
  /\ worker' = [worker EXCEPT ![w] = Idle]
  /\ UNCHANGED <<fields, called, candidate, last, repeatVars>>

NextConcurrent ==
  \/ \E w \in Workers, op \in QueryOps \ TotalOps : WorkerPrimitive(w, op)
  \/ \E w \in Workers, op \in TotalOps : WorkerTotalForward(w, op)
  \/ \E w \in Workers : WorkerTotalBackward(w)
  \/ \E w \in Workers : WorkerReturn(w)

SpecConcurrent == InitConcurrent /\ [][NextConcurrent]_vars

\* the arguments of the last query
LastInputs == last.args[1]
LastOutputs == last.args[2]
LastStage == last.args[3]
LastIsQuery == last.op \in QueryOps
\* the value the method named op returns on the instance self for the
\* arguments of the last query
LastOn(op, self) == Invoke(op, self, LastInputs, LastOutputs, LastStage)
\* the instance with the cross-batch flag toggled, all else equal
Toggled == [Self EXCEPT !.cross_batch_ = ~cross_batch_]
WithCrossBatch(cb) == [Self EXCEPT !.cross_batch_ = cb]
\* the instance seen as a plain ReduceMethodCost, all else equal
AsReduceMethod == [Self EXCEPT !.variant = "ReduceMethodCost"]

(***************************************************************************)
(* Properties.                                                              *)
(***************************************************************************)

\* C1: for every class and every inputs, outputs, stage id and configuration,
\* GetMemoryCost returns GetForwardMemoryCost + GetBackwardMemoryCost.
\* (ReduceMethodCost::GetMemoryCost adds GetBackwardCommCost instead, so this
\* fails for the two reduction classes.)
C1_MemoryTotalIsSumOfParts ==
  last.op = "GetMemoryCost" =>
    last.ret = LastOn("GetForwardMemoryCost", Self) + LastOn("GetBackwardMemoryCost", Self)

\* C2: for every class and every inputs, outputs and stage id, GetCommCost
\* returns GetForwardCommCost + GetBackwardCommCost.
C2_CommTotalIsSumOfParts ==
  last.op = "GetCommCost" =>
    last.ret = LastOn("GetForwardCommCost", Self) + LastOn("GetBackwardCommCost", Self)

\* C2 is exercised: a ReduceMeanCost, which inherits the total, has returned
\* a total of two non-zero parts.
C2_Witness ==
  /\ variant = "ReduceMeanCost"
  /\ last.op = "GetCommCost"
  /\ LastOn("GetForwardCommCost", Self) > 0
  /\ LastOn("GetBackwardCommCost", Self) > 0
  /\ last.ret > LastOn("GetForwardCommCost", Self)

\* C3: every cost query of a data-source class (VirtualDatasetCost,
\* GeneratorBaseCost, GetNextCost) returns 0, whatever the descriptors, the
\* stage id and the configuration.
C3_DataSourcesCostNothing ==
  (variant \in ZeroCostVariants /\ LastIsQuery) => last.ret = 0

\* C3 is exercised: a configured data source was asked for its memory total
\* with a non-empty input list.
C3_Witness ==
  /\ variant = "GeneratorBaseCost"
  /\ last.op = "GetMemoryCost"
  /\ LastInputs # <<>>
  /\ {"set_is_parameter", "SetInputAndOutputTypeLength"} \subseteq called
  /\ inputs_type_lengths_[1] # DEFAULT_DATA_TYPE_LENGTH

\* C4: as long as neither set_is_parameter nor SetInputAndOutputTypeLength
\* has been called, inputs_type_lengths() and outputs_type_lengths() hold
\* MAXIMUM_INPUT_NUMBER slots of byte width 4 and every is_parameter flag is
\* false.
C4_FreshInstanceHasDefaults ==
  (called \cap {"set_is_parameter", "SetInputAndOutputTypeLength"} = {}) =>
    /\ Len(inputs_type_lengths) = MAXIMUM_INPUT_NUMBER
    /\ Len(outputs_type_lengths) = MAXIMUM_INPUT_NUMBER
    /\ Len(is_parameter_) = MAXIMUM_INPUT_NUMBER
    /\ \A k \in 1..MAXIMUM_INPUT_NUMBER :
         /\ inputs_type_lengths[k] = 4
         /\ outputs_type_lengths[k] = 4
         /\ is_parameter_[k] = FALSE

\* C4 is exercised: an instance on which only set_cross_batch and a query
\* have run is still unconfigured.
C4_Witness ==
  /\ called = {"set_cross_batch"}
  /\ cross_batch_
  /\ LastIsQuery

\* C5: right after SetInputAndOutputTypeLength(inLens, outLens) with vectors
\* shorter than the number of slots, slot k of inputs_type_lengths() holds
\* inLens[k] for every k within inLens, every later slot still exists and
\* holds the default 4; likewise for outputs_type_lengths() and outLens.
C5_ShortVectorsKeepTrailingDefaults ==
  last.op = "SetInputAndOutputTypeLength" =>
    LET inLens == last.args[1]
        outLens == last.args[2]
    IN /\ Len(inputs_type_lengths) = MAXIMUM_INPUT_NUMBER
       /\ Len(outputs_type_lengths) = MAXIMUM_INPUT_NUMBER
       /\ \A k \in 1..MAXIMUM_INPUT_NUMBER :
            /\ inputs_type_lengths[k] = IF k <= Len(inLens) THEN inLens[k] ELSE 4
            /\ outputs_type_lengths[k] = IF k <= Len(outLens) THEN outLens[k] ELSE 4

\* C5 is exercised: a call with a non-empty input vector and a shorter
\* output vector has just returned.
C5_Witness ==
  /\ last.op = "SetInputAndOutputTypeLength"
  /\ Len(last.args[1]) = MaxCfgLen
  /\ Len(last.args[2]) < Len(last.args[1])
  /\ inputs_type_lengths[1] = 8

\* C6: for a reduction class GetForwardMemoryCost, GetBackwardMemoryCost and
\* GetMemoryCost return the same value whether cross_batch_ is false or
\* true, all else equal.
\* (GetMemoryCost of the reduction classes adds GetBackwardCommCost, which
\* reads the flag, so this fails for GetMemoryCost.)
C6_MemoryCostsIgnoreCrossBatch ==
  (variant \in ReduceVariants
     /\ last.op \in {"GetForwardMemoryCost", "GetBackwardMemoryCost", "GetMemoryCost"}) =>
    last.ret = LastOn(last.op, Toggled)

\* C7: for a reduction class, in every configuration, some inputs, outputs
\* and stage id make GetBackwardCommCost with cross_batch_ false differ from
\* GetBackwardCommCost with cross_batch_ true, and GetCommCost differs there
\* as well.
C7_CrossBatchChangesBackwardComm ==
  variant \in ReduceVariants =>
    \E inputs \in TensorLists, outputs \in OutputLists, stage_id \in StageIds :
      /\ GetBackwardCommCost(WithCrossBatch(FALSE), inputs, outputs, stage_id)
           # GetBackwardCommCost(WithCrossBatch(TRUE), inputs, outputs, stage_id)
      /\ GetCommCost(WithCrossBatch(FALSE), inputs, outputs, stage_id)
           # GetCommCost(WithCrossBatch(TRUE), inputs, outputs, stage_id)

\* C7 is exercised: after set_cross_batch(true) a reduction returned a
\* backward communication cost it would not have returned with the flag
\* false.
C7_Witness ==
  /\ variant \in ReduceVariants
  /\ "set_cross_batch" \in called
  /\ cross_batch_
  /\ last.op = "GetBackwardCommCost"
  /\ last.ret # LastOn("GetBackwardCommCost", Toggled)

\* C8: for BatchParallelCost, GetForwardCommCost, GetBackwardCommCost and
\* GetCommCost return 0 for every inputs, outputs and stage id, while
\* GetMemoryCost is not constant: two input lists of the same length whose
\* tensors differ in size get different memory costs.
C8_BatchParallelCommIsZeroMemoryVaries ==
  variant = "BatchParallelCost" =>
    /\ last.op \in {"GetForwardCommCost", "GetBackwardCommCost", "GetCommCost"} =>
         last.ret = 0
    /\ \E i1 \in TensorLists, i2 \in TensorLists,
          outputs \in OutputLists, stage_id \in StageIds :
         /\ Len(i1) = Len(i2)
         /\ GetMemoryCost(Self, i1, outputs, stage_id)
              # GetMemoryCost(Self, i2, outputs, stage_id)

\* C8 is exercised: a BatchParallelCost with a parameter input returned a
\* communication total for a candidate whose memory cost is not 0.
C8_Witness ==
  /\ variant = "BatchParallelCost"
  /\ last.op = "GetCommCost"
  /\ is_parameter_[1]
  /\ LastOn("GetMemoryCost", Self) > 0

\* the instance is as the worker w found it when it made its call
SelfAsCalled(w) == worker[w].pc # "idle" => worker[w].self = Self

\* C9: no cost query mutates the instance.  Under any interleaving of the
\* workers' calls on a configured instance, no step of a call writes
\* is_parameter_, the byte widths or cross_batch_ (a worker in a call still
\* sees the instance it was called on), and every call that has returned,
\* a total evaluated in two steps with other workers' calls in between
\* included, holds the value the method yields in one evaluation, alone, on
\* the configuration, inputs, outputs and stage id it was called with.
C9_ReturnedValueIsPure ==
  \A w \in Workers :
    /\ SelfAsCalled(w)
    /\ worker[w].pc = "done" =>
         worker[w].ret = Invoke(worker[w].op, worker[w].self,
                                worker[w].args[1], worker[w].args[2], worker[w].args[3])
C10_ReduceMeanOverridesForwardMemoryOnly ==
  variant = "ReduceMeanCost" =>
    /\ last.op \in {"GetForwardCommCost", "GetBackwardCommCost",
                    "GetBackwardMemoryCost", "GetCommCost"} =>
         last.ret = LastOn(last.op, AsReduceMethod)
    /\ last.op = "GetForwardMemoryCost" =>
         last.ret = ReduceMeanCost_GetForwardMemoryCost(Self, LastInputs, LastOutputs, LastStage)
    /\ last.op = "GetMemoryCost" =>
         last.ret - ReduceMeanCost_GetForwardMemoryCost(Self, LastInputs, LastOutputs, LastStage)
           = LastOn("GetMemoryCost", AsReduceMethod)
               - ReduceMethodCost_GetForwardMemoryCost(Self, LastInputs, LastOutputs, LastStage)

\* C10 is exercised: a ReduceMeanCost returned a memory total for a candidate
\* on which the override and the base formula disagree.
C10_Witness ==
  /\ variant = "ReduceMeanCost"
  /\ last.op = "GetMemoryCost"
  /\ ReduceMeanCost_GetForwardMemoryCost(Self, LastInputs, LastOutputs, LastStage)
       # ReduceMethodCost_GetForwardMemoryCost(Self, LastInputs, LastOutputs, LastStage)
  /\ last.ret # LastOn("GetMemoryCost", AsReduceMethod)

(***************************************************************************)
(* Configuration with byte widths that are not positive (section 7 of the   *)
(* specification).  SetInputAndOutputTypeLength returns void and takes      *)
(* vectors of size_t; its out-of-line body stores what it is given, and     *)
(* section 7 records that the widths are left unchecked.  The same setter   *)
(* is called here with vectors that may hold the width 0.                   *)
(***************************************************************************)
UncheckedTypeLengths == {0, 8}
UncheckedLengthVectors == SeqsUpTo(UncheckedTypeLengths, MaxCfgLen)

CallSetInputAndOutputTypeLengthUnchecked ==
  \E input_lengths \in UncheckedLengthVectors, output_lengths \in UncheckedLengthVectors :
    SetInputAndOutputTypeLength(input_lengths, output_lengths)

NextUnchecked ==
  \/ CallSetInputAndOutputTypeLengthUnchecked
  \/ CallGetForwardMemoryCost
  \/ CallGetMemoryCost

SpecUnchecked == Init /\ [][NextUnchecked]_vars

HasZeroWidth(lengths) == \E k \in 1..Len(lengths) : lengths[k] = 0

\* C11: a call of SetInputAndOutputTypeLength with the byte width 0 in an
\* input or output slot is rejected, and the byte widths stored before the
\* call (the defaults: the setter is called at most once) are still stored
\* after it.  (The setter stores the widths it is given, 0 included, so this
\* fails.)
C11_ZeroWidthIsRejected ==
  (/\ last.op = "SetInputAndOutputTypeLength"
   /\ HasZeroWidth(last.args[1]) \/ HasZeroWidth(last.args[2]))
    => /\ inputs_type_lengths_ = DefaultTypeLengths
       /\ outputs_type_lengths_ = DefaultTypeLengths

(***************************************************************************)
(* RepeatOp (dataset/engine/datasetops/repeat_op.cc).                       *)
(*                                                                          *)
(* A Builder holds the requested count; Build checks it and constructs the  *)
(* operator.  The execution tree then prepares the operator                 *)
(* (PrepareNodeAction), which takes over the leaf operators the tree has    *)
(* stacked for it, and from then on the consumer pulls buffers with         *)
(* GetNextBuffer.  The child is any operator: each buffer it hands over is  *)
(* a data buffer, an end-of-epoch (eoe) or an end-of-file (eof) buffer, in  *)
(* any order, or the call to the child fails.  A call of GetNextBuffer is   *)
(* followed through its loop: waiting on the child is a position of its     *)
(* own, so the operators below run between EoeReceived and the next buffer. *)
(* Every call whose Status the code tests with RETURN_IF_NOT_OK may fail.   *)
(***************************************************************************)
kInfiniteRepeat == -1

\* largest repeat count handed to the Builder
MaxRepeats == 3
\* number of eoe buffers the child delivers at most
MaxEoe == 5
\* number of leaf operators of the execution tree
MaxLeaves == 2

\* counts handed to the Builder: -3, -2 and 0 are not valid
BuildCounts == (kInfiniteRepeat - 2)..MaxRepeats
\* the operators of the tree that may be stacked for the RepeatOp
TreeOps == 1..MaxLeaves
\* the kinds of buffer a child hands over
ChildBuffers == {"data", "eoe", "eof"}

\* the operator with the control flag kDeOpLastRepeat
set_control_flag(flags, op) == [flags EXCEPT ![op] = TRUE]

\* RepeatOp::Builder::Builder(count); the tree holds MaxLeaves operators, the
\* first k of them waiting to be handed over by PopFromRepeatStack in that
\* order, and the RepeatOp will have a child or none.
InitRepeat ==
  /\ variant = "none"
  /\ is_parameter_ = <<>>
  /\ inputs_type_lengths_ = <<>>
  /\ outputs_type_lengths_ = <<>>
  /\ cross_batch_ = FALSE
  /\ called = {}
  /\ q_inputs = <<>>
  /\ q_outputs = <<>>
  /\ q_stage_id = 0
  /\ last = [op |-> "none", args |-> <<>>, ret |-> 0]
  /\ worker = [w \in Workers |-> Idle]
  /\ build_max_repeats_ \in BuildCounts
  /\ build_status = "none"
  /\ ptr = "nullptr"
  /\ max_repeats_ = 0
  /\ repeat_count_ = 0
  /\ state_ = "none"
  /\ leaf_ops_ = <<>>
  /\ child_ \in {<<>>, <<"child">>}
  /\ \E k \in 0..MaxLeaves : repeat_stack = [i \in 1..k |-> i]
  /\ prepare_status = "none"
  /\ op_ctrl_flags_ = [op \in TreeOps |-> FALSE]
  /\ pc = "Builder"
  /\ buf = "none"
  /\ p_buffer = [status |-> "none", buffer |-> "none"]
  /\ eoe_log = <<>>

costVars == <<variant, is_parameter_, inputs_type_lengths_, outputs_type_lengths_,
              cross_batch_, called, q_inputs, q_outputs, q_stage_id, last, worker>>


\* Faulty variant: the check turns away every count that is not positive.
SanityCheck_Slip(count) == IF count <= 0 THEN "error" ELSE "OK"
\* Status RepeatOp::Builder::SanityCheck() const
SanityCheck(count) ==
  IF count < kInfiniteRepeat \/ count = 0 THEN "error" ELSE "OK"

\* the state_ the base-class constructor PipelineOp(0) leaves.  The base
\* class is not among the sources at hand: the operator may start idle or
\* running.
DatasetOpInitialStates == {"kDeOpIdle", "kDeOpRunning"}

\* Status RepeatOp::Builder::Build(std::shared_ptr<RepeatOp> *ptr), with the
\* constructor RepeatOp(count) it runs when the check passes: the base-class
\* constructor, then max_repeats_(count) and repeat_count_(0).
Build ==
  /\ pc = "Builder"
  /\ build_status' = SanityCheck(build_max_repeats_)
  /\ IF SanityCheck(build_max_repeats_) # "OK"
     THEN /\ pc' = "failed"
          /\ UNCHANGED <<ptr, max_repeats_, repeat_count_, state_>>
     ELSE /\ ptr' = "RepeatOp"
          /\ max_repeats_' = build_max_repeats_
          /\ repeat_count_' = 0
          /\ state_' \in DatasetOpInitialStates
          /\ pc' = "constructed"
  /\ UNCHANGED <<build_max_repeats_, leaf_ops_, child_, repeat_stack, prepare_status,
                 op_ctrl_flags_, buf, p_buffer, eoe_log>>
  /\ UNCHANGED costVars

\* the loop "for i < leaf_ops.size(): leaf_ops[i]->set_control_flag(kDeOpLastRepeat)"
RECURSIVE FlagLeafOps(_, _)
FlagLeafOps(flags, leaf_ops) ==
  IF leaf_ops = <<>> THEN flags
  ELSE FlagLeafOps(set_control_flag(flags, Head(leaf_ops)), Tail(leaf_ops))

\* PipelineOp::PrepareNodeAction(), line 76: the base-class step.  Its body
\* is not among the sources at hand; it returns a Status, and nothing the
\* RepeatOp reads is taken to change in it.
PipelineOpPrepareNodeAction == {"OK", "error"}

\* Status RepeatOp::PrepareNodeAction(): when the base-class step fails, its
\* status is returned and nothing else happens; otherwise every operator
\* PopFromRepeatStack hands over is appended to leaf_ops_, and flagged when a
\* single epoch is asked for.
PrepareNodeAction ==
  /\ pc = "constructed"
  /\ \E base \in PipelineOpPrepareNodeAction :
       /\ prepare_status' = base
       /\ IF base # "OK"
          THEN UNCHANGED <<leaf_ops_, repeat_stack, op_ctrl_flags_, pc>>
          ELSE /\ leaf_ops_' = leaf_ops_ \o repeat_stack
               /\ repeat_stack' = <<>>
               /\ op_ctrl_flags_' =
                    IF max_repeats_ = 1 THEN FlagLeafOps(op_ctrl_flags_, repeat_stack)
                    ELSE op_ctrl_flags_
               /\ pc' = "ready"
  /\ UNCHANGED <<build_max_repeats_, build_status, ptr, max_repeats_, repeat_count_,
                 state_, child_, buf, p_buffer, eoe_log>>
  /\ UNCHANGED costVars

\* Faulty variant: the leaf operators are flagged one epoch late.
LastRepeatIsNext_Slip(max_repeats, repeat_count) ==
  max_repeats # kInfiniteRepeat /\ repeat_count = max_repeats
\* EoeReceived, line 134: the epoch that starts next is the last one
LastRepeatIsNext(max_repeats, repeat_count) ==
  max_repeats # kInfiniteRepeat /\ repeat_count = max_repeats - 1

\* Faulty variant: the operator goes idle one epoch early.
RepeatsDone_Slip(max_repeats, repeat_count) == repeat_count + 1 = max_repeats
\* EoeReceived, line 140: every requested epoch has been delivered
RepeatsDone(max_repeats, repeat_count) == repeat_count = max_repeats

\* Faulty variant: the operator goes idle as soon as the repeat count is not
\* below max_repeats_, which an endless repeat (-1) meets at once.
EoeReceived_Slip(max_repeats, repeat_count, state, leaf_ops, flags) ==
  LET count == repeat_count + 1
      flagged == IF LastRepeatIsNext(max_repeats, count)
                 THEN FlagLeafOps(flags, leaf_ops) ELSE flags
  IN IF count >= max_repeats
     THEN [repeat_count_ |-> count, op_ctrl_flags_ |-> flagged,
           state_ |-> "kDeOpIdle", reset |-> FALSE]
     ELSE [repeat_count_ |-> count, op_ctrl_flags_ |-> flagged,
           state_ |-> state, reset |-> TRUE]
\* Status RepeatOp::EoeReceived(int32_t worker_id), up to the call of
\* ResetSubtree: the new repeat count, the control flags, the state, and
\* whether the subtree is to be reset.
EoeReceived(max_repeats, repeat_count, state, leaf_ops, flags) ==
  LET count == repeat_count + 1
      flagged == IF LastRepeatIsNext(max_repeats, count)
                 THEN FlagLeafOps(flags, leaf_ops) ELSE flags
  IN IF RepeatsDone(max_repeats, count)
     THEN [repeat_count_ |-> count, op_ctrl_flags_ |-> flagged,
           state_ |-> "kDeOpIdle", reset |-> FALSE]
     ELSE [repeat_count_ |-> count, op_ctrl_flags_ |-> flagged,
           state_ |-> state, reset |-> TRUE]

\* DatasetOp::ResetSubtree() resets the operators below and the RepeatOp
\* itself, and returns a Status.  Its body is not among the sources at hand:
\* it may fail, and it may leave state_ as it is or set it back to running.
ResetSubtree(state) ==
  {[status |-> s, state_ |-> st] : s \in {"OK", "error"}, st \in {state, "kDeOpRunning"}}

\* child_[0]->GetNextBuffer(&buf, worker_id, true): the child hands over any
\* kind of buffer, at most MaxEoe eoe buffers in all, or fails
ChildGetNextBuffer(delivered_eoe) ==
  {b \in ChildBuffers \cup {"error"} : b = "eoe" => delivered_eoe < MaxEoe}

\* what GetNextBuffer leaves with its caller when it returns an error: the
\* status, and no buffer
ErrorReturned == [status |-> "error", buffer |-> "none"]

\* Status RepeatOp::GetNextBuffer(p_buffer, worker_id, retry_if_eoe), lines
\* 102-108: an operator without a child returns an error and hands nothing
\* back; any other one calls its child and waits for the answer.
GetNextBufferEnter ==
  /\ pc = "ready"
  /\ IF child_ = <<>>
     THEN /\ p_buffer' = ErrorReturned
          /\ UNCHANGED pc
     ELSE /\ pc' = "child"
          /\ UNCHANGED p_buffer
  /\ UNCHANGED <<build_max_repeats_, build_status, ptr, max_repeats_, repeat_count_,
                 state_, leaf_ops_, child_, repeat_stack, prepare_status,
                 op_ctrl_flags_, buf, eoe_log>>
  /\ UNCHANGED costVars

\* the child answers the call of line 108 or of line 116: a failed call makes
\* GetNextBuffer return that status; a buffer goes to the test of the loop
GetNextBufferFromChild ==
  /\ pc = "child"
  /\ \E b \in ChildGetNextBuffer(Len(eoe_log)) :
       IF b = "error"
       THEN /\ p_buffer' = ErrorReturned
            /\ pc' = "ready"
            /\ UNCHANGED buf
       ELSE /\ buf' = b
            /\ pc' = "loop"
            /\ UNCHANGED p_buffer
  /\ UNCHANGED <<build_max_repeats_, build_status, ptr, max_repeats_, repeat_count_,
                 state_, leaf_ops_, child_, repeat_stack, prepare_status,
                 op_ctrl_flags_, eoe_log>>
  /\ UNCHANGED costVars

\* the loop "while (buf->eoe())" of GetNextBuffer, lines 109-116, one turn:
\* EoeReceived runs, ResetSubtree within it; a failed EoeReceived makes
\* GetNextBuffer return its status, an idle operator hands the eoe buffer
\* back, any other one calls its child again.
GetNextBufferEoe ==
  /\ pc = "loop"
  /\ buf = "eoe"
  /\ LET r == EoeReceived(max_repeats_, repeat_count_, state_, leaf_ops_, op_ctrl_flags_)
     IN \E o \in (IF r.reset THEN ResetSubtree(r.state_)
                  ELSE {[status |-> "OK", state_ |-> r.state_]}) :
        /\ repeat_count_' = r.repeat_count_
        /\ op_ctrl_flags_' = r.op_ctrl_flags_
        /\ state_' = o.state_
        /\ IF o.status # "OK"
           THEN /\ p_buffer' = ErrorReturned
                /\ pc' = "ready"
           ELSE IF state_' = "kDeOpIdle"
           THEN /\ p_buffer' = [status |-> "OK", buffer |-> buf]
                /\ pc' = "ready"
           ELSE /\ pc' = "child"
                /\ UNCHANGED p_buffer
        /\ eoe_log' = Append(eoe_log,
             [repeat_count |-> r.repeat_count_,
              state_before |-> state_,
              flags_before |-> op_ctrl_flags_,
              flags_at_reset |-> r.op_ctrl_flags_,
              reset |-> r.reset,
              status |-> o.status,
              idle |-> state_' = "kDeOpIdle",
              returned |-> p_buffer'.buffer = "eoe" /\ pc' = "ready",
              fetched |-> pc' = "child"])
  /\ UNCHANGED <<build_max_repeats_, build_status, ptr, max_repeats_, leaf_ops_,
                 child_, repeat_stack, prepare_status, buf>>
  /\ UNCHANGED costVars

\* the exit of the loop, lines 118-123: a data buffer, or an eof buffer after
\* EofReceived (which only logs and returns OK), is handed back
GetNextBufferReturn ==
  /\ pc = "loop"
  /\ buf # "eoe"
  /\ p_buffer' = [status |-> "OK", buffer |-> buf]
  /\ pc' = "ready"
  /\ UNCHANGED <<build_max_repeats_, build_status, ptr, max_repeats_, repeat_count_,
                 state_, leaf_ops_, child_, repeat_stack, prepare_status,
                 op_ctrl_flags_, buf, eoe_log>>
  /\ UNCHANGED costVars

NextRepeat ==
  \/ Build
  \/ PrepareNodeAction
  \/ GetNextBufferEnter
  \/ GetNextBufferFromChild
  \/ GetNextBufferEoe
  \/ GetNextBufferReturn

SpecRepeat == InitRepeat /\ [][NextRepeat]_vars


\* a RepeatOp has been built for a finite number of epochs
FiniteRepeat == ptr = "RepeatOp" /\ max_repeats_ >= 1

\* C12 as stated: for a RepeatOp with finite max_repeats N >= 1 and a child,
\* pulled from repeat_count 0 on, each of the first N-1 eoe buffers of the
\* child is swallowed (EoeReceived resets the subtree, the eoe buffer is not
\* returned and the operator fetches the next child buffer), and the N-th
\* one sets the state to idle and is the first eoe buffer returned.
C12_FirstEoesSwallowedNthReturned ==
  FiniteRepeat =>
    /\ \A k \in 1..Len(eoe_log) :
         /\ k < max_repeats_ =>
              /\ eoe_log[k].reset
              /\ ~eoe_log[k].returned
              /\ eoe_log[k].fetched
         /\ k = max_repeats_ =>
              /\ eoe_log[k].idle
              /\ eoe_log[k].returned
    /\ p_buffer.buffer = "eoe" => Len(eoe_log) >= max_repeats_

\* C12, amended: for a RepeatOp with finite max_repeats N >= 1 and a child,
\* pulled from repeat_count 0 on.  At each of the first N-1 eoe buffers
\* EoeReceived resets the subtree and does not itself make the operator
\* idle; GetNextBuffer then returns the error status without a buffer when
\* ResetSubtree fails, returns the eoe buffer when state_ reads kDeOpIdle
\* after the reset (a state the operator had before the call), and fetches
\* the next child buffer otherwise.  At the N-th eoe buffer EoeReceived sets
\* the state to idle without a reset and GetNextBuffer returns that buffer.
\* For an operator that is not idle when its first eoe buffer arrives, none
\* of the first N-1 eoe buffers is returned, so the N-th is the first one.
C12_EoeSwallowedWhenResetSucceeds ==
  FiniteRepeat =>
    /\ \A k \in 1..Len(eoe_log) :
         /\ k < max_repeats_ =>
              /\ eoe_log[k].reset
              /\ eoe_log[k].idle => eoe_log[k].state_before = "kDeOpIdle"
              /\ eoe_log[k].fetched <=> (eoe_log[k].status = "OK" /\ ~eoe_log[k].idle)
              /\ eoe_log[k].returned <=> (eoe_log[k].status = "OK" /\ eoe_log[k].idle)
         /\ k = max_repeats_ =>
              /\ eoe_log[k].idle
              /\ eoe_log[k].returned
              /\ eoe_log[k].status = "OK"
              /\ ~eoe_log[k].reset
              /\ ~eoe_log[k].fetched
    /\ (Len(eoe_log) >= 1 /\ eoe_log[1].state_before # "kDeOpIdle") =>
         /\ \A k \in 1..Len(eoe_log) :
              k < max_repeats_ => (~eoe_log[k].idle /\ ~eoe_log[k].returned)
         /\ p_buffer.buffer = "eoe" => Len(eoe_log) >= max_repeats_
    /\ p_buffer.buffer = "eoe" => \E k \in 1..Len(eoe_log) : eoe_log[k].returned
    /\ (pc = "ready" /\ Len(eoe_log) = max_repeats_ /\ p_buffer.buffer = "eoe") =>
         state_ = "kDeOpIdle"

\* C12 is exercised: a RepeatOp of three epochs that was running at its
\* first eoe buffer has swallowed two eoe buffers and has just returned the
\* third one to its caller.
C12_Witness ==
  /\ FiniteRepeat
  /\ max_repeats_ = 3
  /\ Len(eoe_log) = 3
  /\ eoe_log[1].state_before = "kDeOpRunning"
  /\ eoe_log[1].reset /\ eoe_log[2].reset
  /\ eoe_log[1].fetched /\ eoe_log[2].fetched
  /\ eoe_log[3].returned
  /\ p_buffer = [status |-> "OK", buffer |-> "eoe"]
  /\ pc = "ready"
  /\ state_ = "kDeOpIdle"


\* the leaf operators the RepeatOp tracks
TrackedOps == {leaf_ops_[i] : i \in 1..Len(leaf_ops_)}
AllTrackedFlagged(flags) == \A op \in TrackedOps : flags[op]
NoTrackedFlagged(flags) == \A op \in TrackedOps : ~flags[op]

\* C13: for a RepeatOp with finite max_repeats N >= 1, every tracked leaf
\* operator has kDeOpLastRepeat set before its last epoch starts and not
\* before its second-to-last epoch ends.  For N = 1 the flag is not set
\* before PrepareNodeAction and is set after it.  For N >= 2 it is set in the
\* EoeReceived call in which repeat_count becomes N-1, before that call
\* resets the subtree, and by no earlier EoeReceived call.
C13_LastRepeatFlagTiming ==
  FiniteRepeat =>
    /\ pc = "constructed" => \A op \in TreeOps : ~op_ctrl_flags_[op]
    /\ (pc \in {"ready", "child", "loop"} /\ max_repeats_ = 1) =>
         AllTrackedFlagged(op_ctrl_flags_)
    /\ (pc \in {"ready", "child", "loop"} /\ max_repeats_ >= 2) =>
         /\ \A k \in 1..Len(eoe_log) :
              /\ eoe_log[k].repeat_count < max_repeats_ - 1 =>
                   NoTrackedFlagged(eoe_log[k].flags_at_reset)
              /\ eoe_log[k].repeat_count = max_repeats_ - 1 =>
                   /\ NoTrackedFlagged(eoe_log[k].flags_before)
                   /\ AllTrackedFlagged(eoe_log[k].flags_at_reset)
                   /\ eoe_log[k].reset
         /\ Len(eoe_log) < max_repeats_ - 1 => NoTrackedFlagged(op_ctrl_flags_)
         /\ Len(eoe_log) >= max_repeats_ - 1 => AllTrackedFlagged(op_ctrl_flags_)

\* C13 is exercised: a RepeatOp of three epochs that tracks two leaf
\* operators left them unflagged at the first eoe and flagged both at the
\* second, in the call that then reset the subtree.
C13_Witness ==
  /\ FiniteRepeat
  /\ max_repeats_ = 3
  /\ Len(leaf_ops_) = 2
  /\ Len(eoe_log) = 2
  /\ eoe_log[1].reset /\ NoTrackedFlagged(eoe_log[1].flags_at_reset)
  /\ eoe_log[2].reset /\ NoTrackedFlagged(eoe_log[2].flags_before)
  /\ AllTrackedFlagged(eoe_log[2].flags_at_reset)
  /\ op_ctrl_flags_[1] /\ op_ctrl_flags_[2]


\* C14: Build succeeds and creates a RepeatOp exactly when the requested
\* count is -1 (infinite) or greater than 0; for the count 0 and for counts
\* below -1 it returns an error status and leaves the output pointer
\* unassigned.
C14_BuildAcceptsInfiniteOrPositive ==
  pc # "Builder" =>
    /\ build_status \in {"OK", "error"}
    /\ build_status = "OK" <=> (build_max_repeats_ = -1 \/ build_max_repeats_ > 0)
    /\ build_status = "OK" => (ptr = "RepeatOp" /\ max_repeats_ = build_max_repeats_)
    /\ build_status = "error" => ptr = "nullptr"

\* C14 is exercised: Build has turned away the count -2 and has left the
\* pointer alone.
C14_Witness ==
  /\ build_max_repeats_ = -2
  /\ pc = "failed"
  /\ build_status = "error"
  /\ ptr = "nullptr"


\* a RepeatOp has been built to repeat without end
InfiniteRepeat == ptr = "RepeatOp" /\ max_repeats_ = kInfiniteRepeat

C16_RepeatCountStaysWithinMax ==
  FiniteRepeat =>
    /\ 0 <= repeat_count_
    /\ repeat_count_ <= max_repeats_
    /\ \A k \in 1..Len(eoe_log) :
         eoe_log[k].reset => eoe_log[k].repeat_count < max_repeats_


\* the reduction classes alone: construction, configuration and queries of a
\* ReduceMethodCost or a ReduceMeanCost
InitReduce == Init /\ variant \in ReduceVariants
SpecReduce == InitReduce /\ [][Next]_vars

\* what C17 says of a state: a reduction instance on which set_cross_batch
\* has not been called has the flag off; after set_cross_batch(cb) the flag
\* is cb; a GetBackwardMemoryCost that has returned has returned 0.
C17_FlagAndBackwardMemory ==
  variant \in ReduceVariants =>
    /\ "set_cross_batch" \notin called => cross_batch_ = FALSE
    /\ last.op = "set_cross_batch" => cross_batch_ = last.args[1]
    /\ last.op = "GetBackwardMemoryCost" => last.ret = 0

\* C17: a freshly constructed ReduceMethodCost or ReduceMeanCost has
\* cross_batch false; set_cross_batch(cb) sets the flag to cb and changes
\* nothing else (the class, is_parameter and the input and output byte
\* widths stay as they are); and GetBackwardMemoryCost of a reduction class
\* is 0 for every inputs, outputs, stage id, configuration and value of the
\* flag.
C17_CrossBatchFlagFrame ==
  /\ []C17_FlagAndBackwardMemory
  /\ [][last'.op = "set_cross_batch" =>
          /\ variant' = variant
          /\ is_parameter_' = is_parameter_
          /\ inputs_type_lengths_' = inputs_type_lengths_
          /\ outputs_type_lengths_' = outputs_type_lengths_]_vars

\* C17 is exercised: set_cross_batch(true) has just run on a ReduceMeanCost
\* whose is_parameter and byte widths had been configured away from their
\* defaults, and they are still as configured.
C17_Witness ==
  /\ variant = "ReduceMeanCost"
  /\ last = [op |-> "set_cross_batch", args |-> <<TRUE>>, ret |-> 0]
  /\ cross_batch_
  /\ is_parameter_[1]
  /\ inputs_type_lengths_[1] = 8
  /\ outputs_type_lengths_[1] = 8

=============================================================================
